---- MODULE Spec2Model ----
(***************************************************************************)
(* A model of paper.py, a command-line arXiv browser and batch downloader. *)
(*                                                                         *)
(* Python strings are modelled as sequences of one-character strings, so   *)
(* that splitting, integer parsing, lower-casing, slugification and path   *)
(* construction are computed as the code computes them.  The script is a   *)
(* single sequential process; pc is its position.                          *)
(***************************************************************************)
EXTENDS Integers, Sequences, FiniteSets, TLC

\* ------------------------------------------------------------------ bounds
MaxEntries == 2
MaxLinks == 2
MaxPrompts == 1
MaxRangeLen == 5
MaxNum == 12
MaxSlugLen == 4

\* ------------------------------------------------------------ characters
DigitSeq == <<"0", "1", "2", "3", "4", "5", "6", "7", "8", "9">>
Digits == {DigitSeq[i] : i \in 1..Len(DigitSeq)}
UpperSeq == <<"A", "B", "C", "D", "E", "F", "G", "H", "I", "J", "K", "L", "M",
              "N", "O", "P", "Q", "R", "S", "T", "U", "V", "W", "X", "Y", "Z">>
LowerSeq == <<"a", "b", "c", "d", "e", "f", "g", "h", "i", "j", "k", "l", "m",
              "n", "o", "p", "q", "r", "s", "t", "u", "v", "w", "x", "y", "z">>
UpperChars == {UpperSeq[i] : i \in 1..Len(UpperSeq)}
LowerChars == {LowerSeq[i] : i \in 1..Len(LowerSeq)}

\* The Python value None, and the state of a name that was never assigned.
None == <<"None">>
Unbound == <<"Unbound">>

\* Python truthiness of an optional string: None and "" are both false.
Truthy(s) == s # None /\ s # <<>>

\* str.lower() on one character and on a string.
LowerChar(c) ==
    IF c \in UpperChars
    THEN LowerSeq[CHOOSE i \in 1..Len(UpperSeq) : UpperSeq[i] = c]
    ELSE c
Lower(s) == [i \in 1..Len(s) |-> LowerChar(s[i])]

\* str.split(sep) for a one-character separator: "" splits to [""].
RECURSIVE Split(_, _)
Split(s, sep) ==
    IF \E i \in 1..Len(s) : s[i] = sep
    THEN LET i == CHOOSE j \in 1..Len(s) :
                      s[j] = sep /\ \A k \in 1..(j - 1) : s[k] # sep
         IN  <<SubSeq(s, 1, i - 1)>> \o Split(SubSeq(s, i + 1, Len(s)), sep)
    ELSE <<s>>

\* int(s): defined on non-empty digit strings, ValueError otherwise.
IsInt(s) == Len(s) > 0 /\ \A i \in 1..Len(s) : s[i] \in Digits
DigitVal(c) == (CHOOSE i \in 1..Len(DigitSeq) : DigitSeq[i] = c) - 1
RECURSIVE ToInt(_)
ToInt(s) ==
    IF Len(s) = 0 THEN 0
    ELSE 10 * ToInt(SubSeq(s, 1, Len(s) - 1)) + DigitVal(s[Len(s)])

\* str(n) for n >= 0.
RECURSIVE Str(_)
Str(n) == IF n < 10 THEN <<DigitSeq[n + 1]>>
          ELSE Str(n \div 10) \o <<DigitSeq[(n % 10) + 1]>>

\* ---------------------------------------------------------------- in_range
\* TermEval with the upper end of an interval excluded.
TermEvalOpenEnd(num, r) ==
    IF \E i \in 1..Len(r) : r[i] = "-"
    THEN LET parts == Split(r, "-")
         IN  IF Len(parts) # 2 THEN "error"
             ELSE IF ~IsInt(parts[1]) THEN "error"
             ELSE IF num >= ToInt(parts[1])
                  THEN IF ~IsInt(parts[2]) THEN "error"
                       ELSE IF num < ToInt(parts[2]) THEN "match"
                       ELSE "nomatch"
                  ELSE "nomatch"
    ELSE IF ~IsInt(r) THEN "error"
    ELSE IF num = ToInt(r) THEN "match"
    ELSE "nomatch"

\* One term of the range string, as the loop body of in_range evaluates it:
\* "match" (return True), "nomatch" (next term) or "error" (ValueError).
\* `and` short-circuits: int(end) is evaluated only when num >= int(start).
TermEval(num, r) ==
    IF \E i \in 1..Len(r) : r[i] = "-"
    THEN LET parts == Split(r, "-")
         IN  IF Len(parts) # 2 THEN "error"
             ELSE IF ~IsInt(parts[1]) THEN "error"
             ELSE IF num >= ToInt(parts[1])
                  THEN IF ~IsInt(parts[2]) THEN "error"
                       ELSE IF num <= ToInt(parts[2]) THEN "match"
                       ELSE "nomatch"
                  ELSE "nomatch"
    ELSE IF ~IsInt(r) THEN "error"
    ELSE IF num = ToInt(r) THEN "match"
    ELSE "nomatch"

RECURSIVE ScanTerms(_, _, _)
ScanTerms(num, range_list, i) ==
    IF i > Len(range_list) THEN "False"
    ELSE LET t == TermEval(num, range_list[i])
         IN  IF t = "match" THEN "True"
             ELSE IF t = "error" THEN "ValueError"
             ELSE ScanTerms(num, range_list, i + 1)

\* in_range(num, range_str): "True", "False" or "ValueError".
in_range(num, range_str) == ScanTerms(num, Split(range_str, ","), 1)

\* ----------------------------------------------------------------- slugify
\* re.sub("[^0-9a-zA-Z_]+", "_", s)
IsWordChar(c) == c \in Digits \cup UpperChars \cup LowerChars \cup {"_"}
\* slugify with the + of the pattern forgotten: one underscore for every
\* character that is not a word character.
slugifyEachChar(s) ==
    [i \in 1..Len(s) |-> IF IsWordChar(s[i]) THEN s[i] ELSE "_"]

RECURSIVE slugify(_)
slugify(s) ==
    IF Len(s) = 0 THEN <<>>
    ELSE IF IsWordChar(s[1]) THEN <<s[1]>> \o slugify(Tail(s))
    ELSE IF Len(s) > 1 /\ ~IsWordChar(s[2]) THEN slugify(Tail(s))
    ELSE <<"_">> \o slugify(Tail(s))

\* ------------------------------------------------------------ configuration
\* Filename templates, as sequences of tokens: a placeholder or a literal
\* character.  The first is the default of --output-filename-template.
KnownPlaceholders == {"{id}", "{auth}", "{title}", "{pub}", "{updt}"}
UnknownPlaceholders == {"{foo}"}
DefaultTemplate == <<"{pub}", "-", "{auth}", "-", "{title}", "-", "{id}">>
Templates == {DefaultTemplate, <<"{id}", "{foo}">>}

\* The namespaces parse_args may return.  Each range option is absent
\* (None), empty, well formed, or has a malformed second term.
\* --remove-non-pdf and --keep-non-pdf are mutually exclusive.  The two
\* policy switches, which the run cannot read when --download is off, are
\* left at their defaults then.
Configs ==
    {a \in [publish_years : {None, <<"1">>, <<"1", ",", "x">>},
            update_years : {<<>>, <<"2">>},
            download_selection : {None, <<"2">>, <<"2", ",", "x">>},
            download : BOOLEAN,
            keep_non_pdf : BOOLEAN,
            remove_non_pdf : BOOLEAN,
            output_filename_template : Templates,
            output_dir : {<<".">>}] :
        /\ ~(a.keep_non_pdf /\ a.remove_non_pdf)
        /\ ~a.download => (~a.keep_non_pdf /\ ~a.remove_non_pdf)}

YES == {<<>>, <<"y">>, <<"y", "e", "s">>}
NO == {<<"n">>, <<"n", "o">>}

\* Lines the operator may type at the prompt.
Answers == {<<>>, <<"y">>, <<"Y", "E", "S">>, <<"N">>, <<"n", "o">>,
            <<"q">>}

\* -------------------------------------------------------------------- feed
Years == {<<"1">>, <<"2">>}
LinkRoles == {"pdf", "other"}
\* The link elements of one entry: whether each is a primary document.
\* Only the first link (the abstract page) may be of another kind.
LinkLists ==
    {l \in UNION {[1..n -> LinkRoles] : n \in 0..MaxLinks} :
        \A i \in 2..Len(l) : l[i] = "pdf"}

\* The entries the feed may hold at position p: every entry has its four
\* fields, and is not updated before it is published.
EntriesAt(p) ==
    {e \in [id : {<<"a", "/">> \o Str(p)},
            title : {<<"T", " ">> \o Str(p)},
            authors : {<< <<"A", ".", " ", "B">> >>},
            published : Years,
            updated : Years] :
        ToInt(e.updated) >= ToInt(e.published)}

NoEntry == [id |-> None, title |-> None, authors |-> <<>>,
            published |-> None, updated |-> None]

\* ------------------------------------------------------------------- state
VARIABLES
    pc,              \* position of the script
    abort,           \* the uncaught exception that ended the run, or "none"
    args,            \* parsed command line
    requests,        \* kinds of network request issued so far
    n_entries,       \* len(entry_list)
    pos,             \* entries of entry_list the for loop has taken
    entry,           \* the element the loop body is working on
    id_, title, publish_year, update_year,  \* names bound by the field loop
    entry_index,
    printed,         \* numbering lines written to stdout
    slug,
    pdf_links,       \* indices of the entry's primary-document links
    attempts,        \* the links of the entry urlretrieve was called for
    link_pos,        \* links of pdf_links the inner for loop has taken
    excess_index,
    local_file_path,
    files,           \* the file system: the paths that exist
    prompts,         \* prompts issued by the current validate_pdf call
    task,            \* the download task of the link being worked on
    range_str, num, result,  \* one evaluation of in_range
    text, slug_once, slug_twice   \* slugify applied to a string, and again

vars == <<pc, abort, args, requests, n_entries, pos, entry, id_, title,
          publish_year, update_year, entry_index, printed, slug, pdf_links,
          attempts,
          link_pos, excess_index, local_file_path, files, prompts, task,
          range_str, num, result, text, slug_once, slug_twice>>

rangeVars == <<range_str, num, result>>
slugVars == <<text, slug_once, slug_twice>>
fieldVars == <<id_, title, publish_year, update_year>>

NoTask == [pos |-> 0, index |-> 0, k |-> 0, path |-> <<>>, fetch |-> "none",
           content |-> "none", read |-> FALSE, remove_called |-> FALSE,
           returned |-> FALSE, choice |-> None, prompts |-> 0]

\* The run's state before the script has done anything.
Blank ==
    /\ abort = "none"
    /\ requests = {}
    /\ n_entries = 0
    /\ pos = 0
    /\ entry = NoEntry
    /\ id_ = Unbound
    /\ title = Unbound
    /\ publish_year = Unbound
    /\ update_year = Unbound
    /\ entry_index = 0
    /\ printed = <<>>
    /\ slug = Unbound
    /\ pdf_links = <<>>
    /\ attempts = <<>>
    /\ link_pos = 0
    /\ excess_index = 0
    /\ local_file_path = Unbound
    /\ files = {}
    /\ prompts = 0
    /\ task = NoTask
    /\ slug_once = Unbound
    /\ slug_twice = Unbound

\* The state after parse_args (line 232).
Init ==
    /\ pc = "start"
    /\ args \in Configs
    /\ Blank
    /\ range_str = <<>>
    /\ num = 0
    /\ result = "none"
    /\ text = <<>>

\* --------------------------------------------------------- file system ops
\* urlretrieve writing a file at path p (create or overwrite).
WriteFile(fs, p) == fs \cup {p}
\* os.remove(p)
RemoveFile(fs, p) == fs \ {p}

\* --------------------------------------------------------------- the script
\* An uncaught exception ends the run where it is raised.
Raise(exc) == pc' = "aborted" /\ abort' = exc

\* The next iteration rebinds these names before it reads them.
EndEntry ==
    /\ entry' = NoEntry
    /\ slug' = Unbound
    /\ pdf_links' = <<>>
    /\ attempts' = <<>>
    /\ link_pos' = 0
    /\ excess_index' = 0
    /\ local_file_path' = Unbound
    /\ prompts' = 0
    /\ task' = NoTask

entryVars == <<entry, slug, pdf_links, attempts, link_pos, excess_index,
               local_file_path, prompts, task>>

\* Lines 242-251: the feed query and the collection of entry_list.
FeedQuery ==
    /\ pc = "start"
    /\ requests' = requests \cup {"query"}
    /\ \E n \in 0..MaxEntries : n_entries' = n
    /\ pc' = "loop"
    /\ UNCHANGED <<abort, args, pos, fieldVars, entry_index, printed,
                   entryVars, files, rangeVars, slugVars>>

\* Line 242: urlopen raises; nothing catches it.
FeedQueryFail ==
    /\ pc = "start"
    /\ requests' = requests \cup {"query"}
    /\ Raise("URLError")
    /\ UNCHANGED <<args, n_entries, pos, fieldVars, entry_index, printed,
                   entryVars, files, rangeVars, slugVars>>

\* Line 259: the last "/"-separated segment of the id element's text.
LastSegment(s) == LET parts == Split(s, "/") IN parts[Len(parts)]

\* Lines 254-277: the for loop takes the next entry and the field loop binds
\* a name for every child element the entry has; the other names keep the
\* value an earlier iteration gave them (or stay unbound).
TakeEntry(feed_entries) ==
    /\ pc = "loop"
    /\ pos < n_entries
    /\ pos' = pos + 1
    /\ \E e \in feed_entries :
        /\ entry' = e
        /\ id_' = IF e.id # None THEN LastSegment(e.id) ELSE id_
        /\ title' = IF e.title # None THEN e.title ELSE title
        /\ publish_year' = IF e.published # None THEN e.published
                           ELSE publish_year
        /\ update_year' = IF e.updated # None THEN e.updated ELSE update_year
    /\ pc' = "filter"
    /\ UNCHANGED <<abort, args, requests, n_entries, entry_index, printed,
                   slug, pdf_links, attempts, link_pos, excess_index, local_file_path,
                   files, prompts, task, rangeVars, slugVars>>

NextEntry == TakeEntry(EntriesAt(pos + 1))

\* The for loop of line 254 is exhausted: the script ends.
Finish ==
    /\ pc = "loop"
    /\ pos = n_entries
    /\ pc' = "done"
    /\ UNCHANGED <<abort, args, requests, n_entries, pos, fieldVars,
                   entry_index, printed, entryVars, files, rangeVars, slugVars>>

\* Lines 279-280 and 282-283: one year filter.  "pass", "drop", or the
\* exception raised while evaluating it.
YearFilter(option, year) ==
    IF ~Truthy(option) THEN "pass"
    ELSE IF year = Unbound THEN "NameError"
    ELSE LET r == in_range(ToInt(year), option)
         IN  IF r = "ValueError" THEN "ValueError"
             ELSE IF r = "True" THEN "pass"
             ELSE "drop"

\* FilterResult without the update-year filter.
FilterResultPublishOnly(a, pub, upd) == YearFilter(a.publish_years, pub)

\* Lines 279-284: the publish-year filter, then the update-year filter.
FilterResult(a, pub, upd) ==
    LET p == YearFilter(a.publish_years, pub)
    IN  IF p # "pass" THEN p ELSE YearFilter(a.update_years, upd)

Filter ==
    /\ pc = "filter"
    /\ LET f == FilterResult(args, publish_year, update_year)
       IN  \/ /\ f = "pass"
              /\ pc' = "index"
              /\ UNCHANGED <<abort, entryVars>>
           \/ /\ f = "drop"
              /\ pc' = "entry_done"
              /\ UNCHANGED <<abort, entryVars>>
           \/ /\ f \in {"NameError", "ValueError"}
              /\ Raise(f)
              /\ UNCHANGED entryVars
    /\ UNCHANGED <<args, requests, n_entries, pos, fieldVars, entry_index,
                   printed, files, rangeVars, slugVars>>

\* "-".join(names)
RECURSIVE JoinDash(_)
JoinDash(names) ==
    IF Len(names) = 0 THEN <<>>
    ELSE IF Len(names) = 1 THEN names[1]
    ELSE names[1] \o <<"-">> \o JoinDash(Tail(names))

\* str.format on the template's tokens: the rendered string.
RECURSIVE Render(_, _)
Render(template, fields) ==
    IF Len(template) = 0 THEN <<>>
    ELSE LET t == template[1]
         IN  (IF t \in KnownPlaceholders THEN fields[t] ELSE <<t>>)
             \o Render(Tail(template), fields)

\* Lines 291-297: the slug of the current entry, or the exception raised
\* on the way.  slugify(title) and the keyword arguments are evaluated
\* before format looks a placeholder up.
SlugResult(template, i, t, authors, pub, upd) ==
    IF Unbound \in {i, t, pub, upd} THEN <<"NameError">>
    ELSE IF \E j \in 1..Len(template) : template[j] \in UnknownPlaceholders
         THEN <<"KeyError">>
    ELSE Render(template,
                [ph \in KnownPlaceholders |->
                    CASE ph = "{id}" -> i
                      [] ph = "{auth}" ->
                            JoinDash([j \in 1..Len(authors) |->
                                         slugify(authors[j])])
                      [] ph = "{title}" -> slugify(t)
                      [] ph = "{pub}" -> pub
                      [] ph = "{updt}" -> upd])

\* NextIndex with the increment forgotten.
NextIndexStuck(i) == i

\* Line 286: the display index of an entry that survived the filters.
NextIndex(i) == i + 1

\* Lines 286-304: number the entry, print the numbering, render the slug
\* and print the entry.
Index ==
    /\ pc = "index"
    /\ entry_index' = NextIndex(entry_index)
    /\ printed' = Append(printed, [index |-> entry_index', pos |-> pos])
    /\ LET sl == SlugResult(args.output_filename_template, id_, title,
                            entry.authors, publish_year, update_year)
       IN  \/ /\ sl \in {<<"NameError">>, <<"KeyError">>}
              /\ Raise(sl[1])
              /\ UNCHANGED slug
           \/ /\ sl \notin {<<"NameError">>, <<"KeyError">>}
              /\ slug' = sl
              /\ pc' = "select"
              /\ UNCHANGED abort
    /\ UNCHANGED <<args, requests, n_entries, pos, entry, fieldVars,
                   pdf_links, attempts, link_pos, excess_index, local_file_path, files,
                   prompts, task, rangeVars, slugVars>>

\* PdfLinks with every link put at the front of the list.
PdfLinksReversed(links) ==
    LET RECURSIVE collect(_)
        collect(i) ==
            IF i > Len(links) THEN <<>>
            ELSE collect(i + 1) \o (IF links[i] = "pdf" THEN <<i>> ELSE <<>>)
    IN  collect(1)

\* Lines 306-314: the indices of the links that are primary documents.
PdfLinks(links) ==
    LET RECURSIVE collect(_)
        collect(i) ==
            IF i > Len(links) THEN <<>>
            ELSE (IF links[i] = "pdf" THEN <<i>> ELSE <<>>) \o collect(i + 1)
    IN  collect(1)

\* Eligible without the test of the selection.
EligibleIgnoringSelection(a, index) ==
    IF a.download THEN "True" ELSE "False"

\* Lines 323-325: "True", "False" or "ValueError".
Eligible(a, index) ==
    IF ~a.download THEN "False"
    ELSE IF ~Truthy(a.download_selection) THEN "True"
    ELSE in_range(index, a.download_selection)

\* Lines 306-329: read the entry's link elements, print the links and
\* decide whether this entry is downloaded.
Select ==
    /\ pc = "select"
    /\ \E links \in LinkLists :
        LET el == Eligible(args, entry_index)
            pl == PdfLinks(links)
        IN  \/ /\ el = "ValueError"
               /\ Raise(el)
               /\ pdf_links' = pl
               /\ UNCHANGED <<entry, slug, link_pos, excess_index,
                              local_file_path, prompts, task>>
            \/ /\ el = "True"
               /\ Len(pl) > 0
               /\ pdf_links' = pl
               /\ excess_index' = 1
               /\ link_pos' = 0
               /\ pc' = "links"
               /\ UNCHANGED <<abort, entry, slug, local_file_path, prompts,
                              task>>
            \/ /\ el = "False" \/ (el = "True" /\ Len(pl) = 0)
               /\ pdf_links' = pl
               /\ pc' = "entry_done"
               /\ UNCHANGED <<abort, entry, slug, link_pos, excess_index,
                              local_file_path, prompts, task>>
    /\ UNCHANGED <<args, requests, n_entries, pos, fieldVars, entry_index,
                   printed, attempts, files, rangeVars, slugVars>>

\* LocalFilePath with the suffix counted from the second link.
LocalFilePathFromOne(dir, sl, excess) ==
    IF excess > 1
    THEN dir \o <<"/">> \o sl \o <<"-", "-">> \o Str(excess - 1)
             \o <<".", "p", "d", "f">>
    ELSE dir \o <<"/">> \o sl \o <<".", "p", "d", "f">>

\* Lines 333-337: the path the link is fetched to.
LocalFilePath(dir, sl, excess) ==
    IF excess > 1
    THEN dir \o <<"/">> \o sl \o <<"-", "-">> \o Str(excess)
             \o <<".", "p", "d", "f">>
    ELSE dir \o <<"/">> \o sl \o <<".", "p", "d", "f">>

\* OnFetch with validate_pdf called after the try statement instead of in
\* its else branch: it runs after a reported failure too.
OnFetchValidateAfter(outcome) ==
    IF outcome \in {"ok", "HTTPError"} THEN "validate" ELSE "raise"

\* What the handlers around urlretrieve do with its outcome (lines 332-345):
\* "validate" (the else branch), "skip" (the except branch: report, go on)
\* or "raise" (no handler matches).
OnFetch(outcome) ==
    IF outcome = "ok" THEN "validate"
    ELSE IF outcome = "HTTPError" THEN "skip"
    ELSE "raise"

\* What urlretrieve may do: write the whole file, raise HTTPError before
\* anything is written, raise URLError (no connection), or raise
\* ContentTooShortError after a partial file was written.
FetchOutcomes == {"ok", "HTTPError", "URLError", "ContentTooShortError"}
\* What the first four bytes of the file a fetch wrote are: %PDF or
\* something else; "none" stands for the file of a fetch that raised, which
\* is never read.
Contents == {"pdf", "other", "none"}

\* Lines 331-341: one link of pdf_links is fetched.
Fetch ==
    /\ pc = "links"
    /\ link_pos < Len(pdf_links)
    /\ requests' = requests \cup {"fetch"}
    /\ attempts' = Append(attempts, pdf_links[link_pos + 1])
    /\ LET path == LocalFilePath(args.output_dir, slug, excess_index)
       IN  \E outcome \in FetchOutcomes, c \in Contents :
            /\ c = "none" <=> outcome # "ok"
            /\ files' = IF outcome \in {"ok", "ContentTooShortError"}
                        THEN WriteFile(files, path)
                        ELSE files
            /\ local_file_path' = path
            /\ task' = [NoTask EXCEPT !.pos = pos, !.index = entry_index,
                                      !.k = link_pos + 1, !.path = path,
                                      !.fetch = outcome,
                                      !.content = c]
            /\ \/ /\ OnFetch(outcome) = "validate"
                  /\ pc' = "validate"
                  /\ UNCHANGED abort
               \/ /\ OnFetch(outcome) = "skip"
                  /\ pc' = "link_done"
                  /\ UNCHANGED abort
               \/ /\ OnFetch(outcome) = "raise"
                  /\ Raise(outcome)
    /\ UNCHANGED <<args, n_entries, pos, entry, fieldVars, entry_index,
                   printed, slug, pdf_links, link_pos, excess_index, prompts,
                   rangeVars, slugVars>>

\* ValidateStep with the removal decided before the signature is looked at.
ValidateStepRemoveFirst(keep_non_pdf, remove_non_pdf, content) ==
    IF keep_non_pdf THEN [read |-> FALSE, act |-> "return"]
    ELSE IF remove_non_pdf THEN [read |-> TRUE, act |-> "remove"]
    ELSE IF content = "pdf" THEN [read |-> TRUE, act |-> "return"]
    ELSE [read |-> TRUE, act |-> "prompt"]

\* ValidateStep with the signature read before the policy is looked at.
ValidateStepAlwaysRead(keep_non_pdf, remove_non_pdf, content) ==
    IF content = "pdf" THEN [read |-> TRUE, act |-> "return"]
    ELSE IF keep_non_pdf THEN [read |-> TRUE, act |-> "return"]
    ELSE IF remove_non_pdf THEN [read |-> TRUE, act |-> "remove"]
    ELSE [read |-> TRUE, act |-> "prompt"]

\* ValidateStep with the signature looked at only under AutoRemove: under
\* the Prompt policy the operator is asked about every fetched file.
ValidateStepPromptFirst(keep_non_pdf, remove_non_pdf, content) ==
    IF keep_non_pdf THEN [read |-> FALSE, act |-> "return"]
    ELSE IF ~remove_non_pdf THEN [read |-> TRUE, act |-> "prompt"]
    ELSE IF content = "pdf" THEN [read |-> TRUE, act |-> "return"]
    ELSE [read |-> TRUE, act |-> "remove"]

\* Lines 106-123 of validate_pdf, up to the prompt loop: whether the file's
\* first four bytes are read, and what is done next.
ValidateStep(keep_non_pdf, remove_non_pdf, content) ==
    IF keep_non_pdf THEN [read |-> FALSE, act |-> "return"]
    ELSE IF content = "pdf" THEN [read |-> TRUE, act |-> "return"]
    ELSE IF remove_non_pdf THEN [read |-> TRUE, act |-> "remove"]
    ELSE [read |-> TRUE, act |-> "prompt"]

\* Remove with the OSError caught and passed over.
RemoveCaught(t) ==
    \/ /\ files' = RemoveFile(files, local_file_path)
       /\ task' = [t EXCEPT !.remove_called = TRUE, !.returned = TRUE]
       /\ pc' = "link_done"
       /\ UNCHANGED abort
    \/ /\ task' = [t EXCEPT !.remove_called = TRUE, !.returned = TRUE]
       /\ pc' = "link_done"
       /\ UNCHANGED <<abort, files>>

\* remove(file_path) at lines 119 and 129: the file is removed and
\* validate_pdf returns, or OSError is raised, which nothing catches.
Remove(t) ==
    \/ /\ files' = RemoveFile(files, local_file_path)
       /\ task' = [t EXCEPT !.remove_called = TRUE, !.returned = TRUE]
       /\ pc' = "link_done"
       /\ UNCHANGED abort
    \/ /\ Raise("OSError")
       /\ task' = [t EXCEPT !.remove_called = TRUE]
       /\ UNCHANGED files

\* Lines 343-345 and 106-123: validate_pdf on the file just fetched.
Validate ==
    /\ pc = "validate"
    /\ LET v == ValidateStep(args.keep_non_pdf, args.remove_non_pdf,
                             task.content)
           t == [task EXCEPT !.read = v.read]
       IN  \/ /\ v.act = "return"
              /\ task' = [t EXCEPT !.returned = TRUE]
              /\ pc' = "link_done"
              /\ UNCHANGED <<abort, files>>
           \/ /\ v.act = "remove"
              /\ Remove(t)
           \/ /\ v.act = "prompt"
              /\ task' = t
              /\ pc' = "prompt"
              /\ UNCHANGED <<abort, files>>
    /\ UNCHANGED <<args, requests, n_entries, pos, entry, fieldVars,
                   entry_index, printed, slug, pdf_links, attempts, link_pos,
                   excess_index, local_file_path, prompts, rangeVars, slugVars>>

\* PromptAct with the answers of YES not recognised.
PromptActNoOnly(choice) ==
    IF choice \in NO THEN "keep" ELSE "retry"

\* PromptAct with the answers of NO not recognised.
PromptActYesOnly(choice) ==
    IF choice \in YES THEN "remove" ELSE "retry"

\* Lines 126-135: what one answer, already lower-cased, leads to.
PromptAct(choice) ==
    IF choice \in YES THEN "remove"
    ELSE IF choice \in NO THEN "keep"
    ELSE "retry"

\* Lines 124-137: one iteration of the prompt loop.
Prompt ==
    /\ pc = "prompt"
    /\ prompts' = prompts + 1
    /\ \E a \in Answers :
        LET act == PromptAct(Lower(a))
            t == [task EXCEPT !.choice = a, !.prompts = prompts + 1]
        IN  \/ /\ act = "remove"
               /\ Remove(t)
            \/ /\ act = "keep"
               /\ task' = [t EXCEPT !.returned = TRUE]
               /\ pc' = "link_done"
               /\ UNCHANGED <<abort, files>>
            \/ /\ act = "retry"
               /\ prompts < MaxPrompts
               /\ task' = t
               /\ UNCHANGED <<pc, abort, files>>
    /\ UNCHANGED <<args, requests, n_entries, pos, entry, fieldVars,
                   entry_index, printed, slug, pdf_links, attempts, link_pos,
                   excess_index, local_file_path, rangeVars, slugVars>>

\* Line 347: the ordinal after one more link attempt.
NextExcess(excess) == excess + 1

\* Line 347 and the inner for loop of line 331: count the attempt, which
\* is over whether the fetch failed or validate_pdf returned, and take the
\* next link or leave the loop.
LinkDone ==
    /\ pc = "link_done"
    /\ link_pos' = link_pos + 1
    /\ excess_index' = NextExcess(excess_index)
    /\ prompts' = 0
    /\ task' = NoTask
    /\ pc' = IF link_pos' < Len(pdf_links) THEN "links" ELSE "entry_done"
    /\ UNCHANGED <<abort, args, requests, n_entries, pos, entry, fieldVars,
                   entry_index, printed, slug, pdf_links, attempts, local_file_path,
                   files, rangeVars, slugVars>>

\* The end of one iteration of the loop of line 254, by `continue` (lines
\* 281 and 284) or at the end of its body.
EntryDone ==
    /\ pc = "entry_done"
    /\ pc' = "loop"
    /\ EndEntry
    /\ UNCHANGED <<abort, args, requests, n_entries, pos, fieldVars,
                   entry_index, printed, files, rangeVars, slugVars>>

Next ==
    \/ FeedQuery
    \/ FeedQueryFail
    \/ NextEntry
    \/ Finish
    \/ Filter
    \/ Index
    \/ Select
    \/ Fetch
    \/ Validate
    \/ Prompt
    \/ LinkDone
    \/ EntryDone

Spec == Init /\ [][Next]_vars

\* ------------------------------------------- the run with an unbounded prompt
\* Lines 124-137 once MaxPrompts prompts were counted: `while not ok` has no
\* counter, so one more invalid answer leads to one more prompt.  The model
\* stops counting there: the prompts beyond the bound are not told apart.
PromptAgain ==
    /\ pc = "prompt"
    /\ prompts >= MaxPrompts
    /\ \E a \in Answers :
        /\ PromptAct(Lower(a)) = "retry"
        /\ task' = [task EXCEPT !.choice = a]
    /\ UNCHANGED <<pc, abort, args, requests, n_entries, pos, entry,
                   fieldVars, entry_index, printed, slug, pdf_links, attempts, link_pos,
                   excess_index, local_file_path, files, prompts, rangeVars, slugVars>>

NextLive ==
    \/ Next
    \/ PromptAgain

\* The steps the interpreter takes on its own.  Each of them is taken once
\* the script has reached it: the script is one sequential process, and a
\* network call that returns (with a result or an exception) lets it go on.
\* The prompt waits for the operator, for whom nothing is assumed.
Script ==
    \/ FeedQuery
    \/ FeedQueryFail
    \/ NextEntry
    \/ Finish
    \/ Filter
    \/ Index
    \/ Select
    \/ Fetch
    \/ Validate
    \/ LinkDone
    \/ EntryDone

\* The command lines this run starts from: without and with --download,
\* under each policy, with either template, with the update-year filter
\* set and the publish-year filter absent or malformed.
LiveConfigs ==
    {a \in Configs : /\ a.publish_years \in {None, <<"1", ",", "x">>}
                     /\ a.update_years = <<"2">>
                     /\ a.download_selection = None}

InitLive ==
    /\ pc = "start"
    /\ args \in LiveConfigs
    /\ Blank
    /\ range_str = <<>>
    /\ num = 0
    /\ result = "none"
    /\ text = <<>>

SpecLive == InitLive /\ [][NextLive]_vars /\ WF_vars(Script)

\* ------------------------------------------------- in_range on its own
\* Every string of at most MaxRangeLen characters of this alphabet is
\* evaluated against every number of Nums.
RangeAlphabet == {"1", "2", ",", "-", "x"}
RangeStrings == UNION {[1..n -> RangeAlphabet] : n \in 0..MaxRangeLen}
Nums == -1..MaxNum

InitRange ==
    /\ pc = "in_range"
    /\ args = CHOOSE a \in Configs : ~a.download /\ a.publish_years = None
                   /\ a.update_years = <<>> /\ a.download_selection = None
                   /\ a.output_filename_template = DefaultTemplate
    /\ Blank
    /\ range_str \in RangeStrings
    /\ num \in Nums
    /\ result = "none"
    /\ text = <<>>

\* Lines 87-100: one call of in_range.
EvalRange ==
    /\ pc = "in_range"
    /\ result' = in_range(num, range_str)
    /\ pc' = "returned"
    /\ UNCHANGED <<abort, args, requests, n_entries, pos, fieldVars,
                   entry_index, printed, entryVars, files, range_str, num,
                   slugVars>>

NextRange == EvalRange

SpecRange == InitRange /\ [][NextRange]_vars

\* ------------------------------------- the run on any feed and template
\* The entries of a feed need not have every child element (the entry by
\* which the arXiv API reports an error has no published element), and a
\* template need not name the identifier.
LossyEntriesAt(p) ==
    EntriesAt(p) \cup
    {[e EXCEPT ![f] = None] : e \in EntriesAt(p),
                              f \in {"id", "title", "published", "updated"}}

WideTemplates == {DefaultTemplate, <<"{pub}">>}

WideConfigs ==
    {a \in [publish_years : {None, <<"1">>},
            update_years : {<<>>},
            download_selection : {None},
            download : BOOLEAN,
            keep_non_pdf : BOOLEAN,
            remove_non_pdf : BOOLEAN,
            output_filename_template : WideTemplates,
            output_dir : {<<".">>}] :
        /\ ~(a.keep_non_pdf /\ a.remove_non_pdf)
        /\ ~a.download => (~a.keep_non_pdf /\ ~a.remove_non_pdf)}

InitWide ==
    /\ pc = "start"
    /\ args \in WideConfigs
    /\ Blank
    /\ range_str = <<>>
    /\ num = 0
    /\ result = "none"
    /\ text = <<>>

\* Lines 254-277 on a feed whose entries may lack a child element.
NextEntryLossy == TakeEntry(LossyEntriesAt(pos + 1))

NextWide ==
    \/ FeedQuery
    \/ FeedQueryFail
    \/ NextEntryLossy
    \/ Finish
    \/ Filter
    \/ Index
    \/ Select
    \/ Fetch
    \/ Validate
    \/ Prompt
    \/ LinkDone
    \/ EntryDone

SpecWide == InitWide /\ [][NextWide]_vars

\* -------------------------------------------------- slugify on its own
\* Every string of at most MaxSlugLen characters of this alphabet: letters
\* of both cases, a digit, the underscore, and two other characters.
SlugAlphabet == {"a", "Z", "1", "_", " ", "!"}
SlugStrings == UNION {[1..n -> SlugAlphabet] : n \in 0..MaxSlugLen}

InitSlug ==
    /\ pc = "slugify"
    /\ args = CHOOSE a \in Configs : ~a.download /\ a.publish_years = None
                   /\ a.update_years = <<>> /\ a.download_selection = None
                   /\ a.output_filename_template = DefaultTemplate
    /\ Blank
    /\ range_str = <<>>
    /\ num = 0
    /\ result = "none"
    /\ text \in SlugStrings

\* Lines 102-104: slugify applied to the string.
Slugify ==
    /\ pc = "slugify"
    /\ slug_once' = slugify(text)
    /\ pc' = "slugified"
    /\ UNCHANGED <<abort, args, requests, n_entries, pos, fieldVars,
                   entry_index, printed, entryVars, files, rangeVars, text,
                   slug_twice>>

\* Lines 102-104: slugify applied to what slugify returned.
Reslugify ==
    /\ pc = "slugified"
    /\ slug_twice' = slugify(slug_once)
    /\ pc' = "reslugified"
    /\ UNCHANGED <<abort, args, requests, n_entries, pos, fieldVars,
                   entry_index, printed, entryVars, files, rangeVars, text,
                   slug_once>>

NextSlug ==
    \/ Slugify
    \/ Reslugify

SpecSlug == InitSlug /\ [][NextSlug]_vars

\* ----------------------------------------------------- reading the claims
\* What the specification means by a range string, stated on its terms and
\* not by the scan of in_range.
ClaimTermOk(t) ==
    \/ IsInt(t)
    \/ \E i \in 1..Len(t) :
        /\ t[i] = "-"
        /\ IsInt(SubSeq(t, 1, i - 1))
        /\ IsInt(SubSeq(t, i + 1, Len(t)))
ClaimTermHas(t, n) ==
    \/ IsInt(t) /\ n = ToInt(t)
    \/ \E i \in 1..Len(t) :
        /\ t[i] = "-"
        /\ IsInt(SubSeq(t, 1, i - 1))
        /\ IsInt(SubSeq(t, i + 1, Len(t)))
        /\ ToInt(SubSeq(t, 1, i - 1)) <= n
        /\ n <= ToInt(SubSeq(t, i + 1, Len(t)))
ClaimTerms(s) == Split(s, ",")
ClaimWellFormed(s) ==
    \A i \in 1..Len(ClaimTerms(s)) : ClaimTermOk(ClaimTerms(s)[i])
ClaimContains(s, n) ==
    \E i \in 1..Len(ClaimTerms(s)) : ClaimTermHas(ClaimTerms(s)[i], n)

\* An option that was given and is not empty.
ClaimConfigured(option) == option # None /\ option # <<>>

\* The entry the loop body is working on is dropped by a year filter.
ClaimDropped ==
    \/ /\ ClaimConfigured(args.publish_years)
       /\ ~ClaimContains(args.publish_years, ToInt(entry.published))
    \/ /\ ClaimConfigured(args.update_years)
       /\ ~ClaimContains(args.update_years, ToInt(entry.updated))

\* The loop body is working on an entry.
InEntry ==
    pc \in {"filter", "index", "select", "links", "validate", "prompt",
            "link_done", "entry_done"}

\* The entry at hand has been numbered and printed; its display index.
CurrentPrinted == \E j \in 1..Len(printed) : printed[j].pos = pos
DisplayIndex == printed[Len(printed)].index

\* The entry at hand is one the download manager is to fetch.
ClaimEligible ==
    /\ CurrentPrinted
    /\ args.download
    /\ \/ ~ClaimConfigured(args.download_selection)
       \/ ClaimContains(args.download_selection, DisplayIndex)

\* The path of the k-th primary-document link of an entry with basename b.
ClaimPath(dir, b, k) ==
    dir \o <<"/">> \o b
        \o (IF k = 1 THEN <<>> ELSE <<"-", "-">> \o Str(k))
        \o <<".", "p", "d", "f">>

\* The answers that ask for the removal, case-insensitively.
ClaimYes(a) == Lower(a) \in {<<>>, <<"y">>, <<"y", "e", "s">>}

\* The answers that ask to keep the file, and the valid answers.
ClaimNo(a) == Lower(a) \in {<<"n">>, <<"n", "o">>}
ClaimValid(a) == ClaimYes(a) \/ ClaimNo(a)

FetchFailures == {"HTTPError", "URLError", "ContentTooShortError"}

\* ------------------------------------------------------------------ claims

\* C1: the display indices of the surviving entries are 1, 2, ..., k in
\* feed order: the j-th numbering line printed carries index j, the lines
\* come in feed order, the counter equals the number of survivors so far,
\* and an entry the filters drop is given no index.
C1_IndicesAreSequential ==
    /\ \A j \in 1..Len(printed) : printed[j].index = j
    /\ \A j \in 1..(Len(printed) - 1) : printed[j].pos < printed[j + 1].pos
    /\ entry_index = Len(printed)
    /\ (pc = "entry_done" /\ ClaimDropped) => ~CurrentPrinted

\* The first entry was dropped and the second one got index 1.
C1_Witness ==
    /\ pc = "entry_done"
    /\ pos = 2
    /\ printed = <<[index |-> 1, pos |-> 2]>>

\* C2: a fetched file that begins with %PDF is never removed; once
\* validate_pdf has returned, a fetched file that does not begin with %PDF
\* is gone if and only if the policy is AutoRemove, or the policy is Prompt
\* and the deciding answer is empty, y or yes (in any case); under AutoKeep
\* it stays.
C2_RemovedIffPolicy ==
    /\ (task.fetch = "ok" /\ task.content = "pdf") =>
            (~task.remove_called /\ task.path \in files)
    /\ (task.fetch = "ok" /\ task.content = "other" /\ task.returned) =>
            (task.path \notin files <=>
                \/ args.remove_non_pdf
                \/ /\ ~args.remove_non_pdf
                   /\ ~args.keep_non_pdf
                   /\ ClaimYes(task.choice))
    /\ (task.fetch = "ok" /\ args.keep_non_pdf) => task.path \in files

\* Under Prompt, the answer YES removed a file that is not a PDF.
C2_Witness ==
    /\ pc = "link_done"
    /\ ~args.remove_non_pdf /\ ~args.keep_non_pdf
    /\ task.content = "other"
    /\ task.choice = <<"Y", "E", "S">>
    /\ task.returned
    /\ task.path \notin files

\* C3: a fetch failure of any kind on one link is recovered: the run does
\* not abort because the fetch of a link failed.
C3_FetchFailureRecovered ==
    task.fetch \in FetchFailures => pc # "aborted"

\* C4: a fetch is attempted for the primary-document links of an entry if
\* and only if the entry survived the filters, downloading is enabled and
\* the selection is absent or contains the display index; otherwise no
\* link of the entry is taken and nothing is fetched, validated, asked or
\* removed for it.
C4_FetchIffEligible ==
    /\ (pc \in {"links", "validate", "prompt", "link_done"}
            \/ task # NoTask \/ link_pos > 0) =>
          (ClaimEligible /\ ~ClaimDropped /\ task.index \in {0, DisplayIndex})
    /\ pc = "entry_done" =>
          link_pos = IF ClaimEligible THEN Len(pdf_links) ELSE 0
    /\ "fetch" \in requests => args.download

\* The selection "2" names the feed position of the entry at hand, whose
\* display index is 1: none of its two links is fetched.
C4_Witness ==
    /\ pc = "entry_done"
    /\ args.download
    /\ args.download_selection = <<"2">>
    /\ pos = 2
    /\ printed = <<[index |-> 1, pos |-> 2]>>
    /\ Len(pdf_links) = 2
    /\ link_pos = 0
    /\ files = {}

\* C5: the k-th primary-document link of an entry with basename B is
\* fetched to outputDir/B.pdf when k = 1 and to outputDir/B--k.pdf when
\* k >= 2; the ordinal starts at 1 for every entry and has advanced by one
\* for every link taken before, whatever became of it.
C5_PathOfKthLink ==
    /\ task # NoTask =>
          /\ task.k = link_pos + 1
          /\ task.path = ClaimPath(args.output_dir, slug, task.k)
          /\ local_file_path = task.path
    /\ pc \in {"links", "validate", "prompt", "link_done"} =>
          excess_index = link_pos + 1

\* Nothing is kept from the first link, which failed (under AutoKeep no
\* file is removed), and the second link was fetched to B--2.pdf.
C5_Witness ==
    /\ args.keep_non_pdf
    /\ task.k = 2
    /\ task.fetch = "ok"
    /\ ClaimPath(args.output_dir, slug, 1) \notin files
    /\ task.path = args.output_dir \o <<"/">> \o slug
                       \o <<"-", "-", "2", ".", "p", "d", "f">>
    /\ task.path \in files

\* C6: for a range string whose terms are all well formed, in_range is
\* true exactly when the number equals a singleton term or lies within an
\* interval term, both ends included; a term with low > high is accepted
\* and matches nothing.
C6_InRangeMeansContains ==
    (pc = "returned" /\ ClaimWellFormed(range_str)) =>
        result = IF ClaimContains(range_str, num) THEN "True" ELSE "False"

\* "2-1,1" evaluated against 1: the inverted interval is accepted and does
\* not match, the singleton does.
C6_Witness ==
    /\ pc = "returned"
    /\ range_str = <<"2", "-", "1", ",", "1">>
    /\ num = 1
    /\ result = "True"

\* C7: an entry is dropped if and only if a configured year filter does not
\* contain the corresponding year of the entry; an absent or empty filter
\* accepts every year; a dropped entry gets no index, no output and no
\* download.
C7_DroppedIffFilteredOut ==
    /\ pc \in {"index", "select", "links", "validate", "prompt",
               "link_done"} => ~ClaimDropped
    /\ pc = "entry_done" => (CurrentPrinted <=> ~ClaimDropped)
    /\ (pc = "entry_done" /\ ClaimDropped) =>
          /\ entry_index = Len(printed)
          /\ slug = Unbound
          /\ link_pos = 0
          /\ task = NoTask

\* The update-year filter alone drops the first entry: the publish-year
\* option is absent.
C7_Witness ==
    /\ pc = "entry_done"
    /\ args.publish_years = None
    /\ args.update_years = <<"2">>
    /\ entry.updated = <<"1">>
    /\ printed = <<>>
    /\ pos = 1

\* C8 as stated: after every successful fetch the first four bytes of the
\* file are read, under AutoKeep too.
C8_CheckAlwaysPerformed ==
    (task.fetch = "ok" /\ task.returned) => task.read

\* C8 as amended: once validate_pdf has taken its decision for a fetched
\* file, the first four bytes were read if and only if the policy is not
\* AutoKeep; under AutoKeep validate_pdf returns at once: no read, no
\* prompt, no removal.
C8_CheckUnlessKeep ==
    (task.fetch = "ok" /\ pc # "validate") =>
        /\ task.read <=> ~args.keep_non_pdf
        /\ args.keep_non_pdf =>
              /\ ~task.remove_called
              /\ task.prompts = 0
              /\ task.path \in files

\* Under AutoKeep validate_pdf returned for a file that is not a PDF
\* without reading it.
C8_Witness ==
    /\ args.keep_non_pdf
    /\ task.fetch = "ok"
    /\ task.content = "other"
    /\ task.returned
    /\ ~task.read
    /\ task.path \in files

\* A range option that is configured and malformed, or a template with an
\* unknown placeholder.
ClaimBadConfig ==
    \/ \E o \in {args.publish_years, args.update_years,
                 args.download_selection} :
          ClaimConfigured(o) /\ ~ClaimWellFormed(o)
    \/ \E j \in 1..Len(args.output_filename_template) :
          args.output_filename_template[j] \notin KnownPlaceholders
          /\ args.output_filename_template[j] \in UnknownPlaceholders

\* C9: with a malformed range option or an unknown placeholder in the
\* template the run aborts before any network request: no feed query, no
\* fetch, and no entry is printed.
C9_BadConfigNoNetwork ==
    ClaimBadConfig => (requests = {} /\ printed = <<>>)

\* C10: a range string with a malformed term is rejected with an error for
\* every number it is evaluated against.
C10_MalformedAlwaysRejected ==
    (pc = "returned" /\ ~ClaimWellFormed(range_str)) => result = "ValueError"

\* C11: under the Prompt policy the first valid answer alone decides: an
\* answer of empty, y or yes (in any case) removes the file and ends the
\* prompting, an answer of n or no keeps it and ends the prompting, any
\* other answer leaves the file as it is and leads to one more prompt;
\* hence every answer given before the deciding one was invalid, no prompt
\* follows a valid answer, and an invalid answer can be given at any prompt,
\* however many came before.
C11_FirstValidAnswerDecides ==
    [][/\ pc = "prompt" =>
            LET a == task'.choice
            IN  /\ ClaimYes(a) =>
                      /\ pc' \in {"link_done", "aborted"}
                      /\ task'.remove_called
                      /\ pc' = "link_done" => files' = files \ {task.path}
                      /\ prompts' = prompts + 1
                /\ ClaimNo(a) =>
                      /\ pc' = "link_done"
                      /\ ~task'.remove_called
                      /\ files' = files
                      /\ prompts' = prompts + 1
                /\ ~ClaimValid(a) =>
                      /\ pc' = "prompt"
                      /\ ~task'.remove_called
                      /\ files' = files
                      /\ prompts' = IF prompts < MaxPrompts THEN prompts + 1
                                    ELSE prompts
       /\ pc' = "prompt" =>
            /\ pc \in {"validate", "prompt"}
            /\ ~ClaimValid(task'.choice)
            /\ ~task'.returned
            /\ task'.path \in files'
       /\ pc = "prompt" =>
            ENABLED (NextLive /\ pc' = "prompt" /\ task'.choice # None)
      ]_vars

\* Two prompts for one file: the first answer was invalid, the second, N,
\* kept the file.
C11_Witness ==
    /\ pc = "link_done"
    /\ task.prompts = 2
    /\ task.choice = <<"N">>
    /\ task.returned
    /\ task.path \in files

\* What the specification means by a slug, stated on the positions of the
\* string: a word character is kept, the first character of a run of other
\* characters becomes one underscore, the rest of the run disappears.
ClaimSlug(x) ==
    LET keep(i) ==
            IF IsWordChar(x[i]) THEN <<x[i]>>
            ELSE IF i = 1 \/ IsWordChar(x[i - 1]) THEN <<"_">>
            ELSE <<>>
        RECURSIVE upto(_)
        upto(i) == IF i = 0 THEN <<>> ELSE upto(i - 1) \o keep(i)
    IN  upto(Len(x))

\* C12: slugify replaces every maximal run of characters other than ASCII
\* letters, digits and underscore by one underscore, and it is idempotent:
\* slugify(slugify(x)) = slugify(x).
C12_SlugifyIdempotent ==
    /\ pc \in {"slugified", "reslugified"} => slug_once = ClaimSlug(text)
    /\ pc = "reslugified" => slug_twice = slug_once

\* "a !Z": the run of two characters became one underscore, and the second
\* application changed nothing.
C12_Witness ==
    /\ pc = "reslugified"
    /\ text = <<"a", " ", "!", "Z">>
    /\ slug_once = <<"a", "_", "Z">>
    /\ slug_twice = <<"a", "_", "Z">>

\* C13: validate_pdf is entered exactly once for each successfully fetched
\* file, right after its fetch, and never for a link whose fetch failed:
\* for such a link no file is read, no prompt is issued, no answer is taken
\* and no file is removed.
C13_ValidatedIffFetched ==
    [][/\ pc' = "validate" => (pc = "links" /\ task'.fetch = "ok")
       /\ (pc = "links" /\ task'.fetch = "ok") =>
             (pc' = "validate" /\ ~task'.read /\ ~task'.returned)
       /\ pc' = "prompt" => (pc \in {"validate", "prompt"}
                                /\ task'.fetch = "ok")
       /\ task'.fetch \in FetchFailures =>
             /\ pc' \in {"link_done", "aborted"}
             /\ ~task'.read
             /\ ~task'.remove_called
             /\ ~task'.returned
             /\ task'.prompts = 0 /\ prompts' = 0
             /\ task'.choice = None
       /\ task.fetch \in FetchFailures =>
             (files' = files /\ pc' \notin {"validate", "prompt"})
       /\ (pc = "link_done" /\ task.fetch = "ok") => task.returned
      ]_vars

\* Under the Prompt policy the second link of an entry failed with an HTTP
\* error after the first was fetched and kept: nothing was read or asked
\* for the second.
C13_Witness ==
    /\ pc = "link_done"
    /\ ~args.keep_non_pdf /\ ~args.remove_non_pdf
    /\ task.fetch = "HTTPError"
    /\ task.k = 2
    /\ ~task.read
    /\ task.prompts = 0
    /\ ClaimPath(args.output_dir, slug, 1) \in files
    /\ task.path \notin files

\* C14: the fetch attempts are the primary-document links of the eligible
\* entries, entries in feed order and links in their order within the
\* entry, each link once; a fetch starts only when the link before it is
\* done with, its file validated and disposed of if it was fetched; a run
\* that ends without aborting has taken every entry of the feed.
C14_FetchesInFeedOrder ==
    [][/\ \A i \in 1..(Len(pdf_links') - 1) :
             pdf_links'[i] < pdf_links'[i + 1]
       /\ attempts' =
             SubSeq(pdf_links', 1,
                    link_pos' + (IF pc' \in {"validate", "prompt", "link_done"}
                                    \/ (pc' = "aborted" /\ task'.k > 0)
                                 THEN 1 ELSE 0))
       /\ pc' = "entry_done" =>
             attempts' = IF ClaimEligible' THEN pdf_links' ELSE <<>>
       /\ attempts' # attempts =>
             \/ /\ pc = "links"
                /\ task = NoTask
                /\ task'.pos = pos /\ pos' = pos
                /\ attempts' = Append(attempts, pdf_links[task'.k])
             \/ pc = "entry_done" /\ attempts' = <<>>
       /\ pc' = "links" =>
             \/ pc = "select"
             \/ /\ pc = "link_done"
                /\ task.fetch # "none"
                /\ task.fetch = "ok" => task.returned
       /\ pos' # pos => (pos' = pos + 1 /\ pc = "loop" /\ attempts = <<>>)
       /\ pc' = "done" => pos' = n_entries'
      ]_vars

\* The second entry of the feed is at work: its first link, not a primary
\* document, was passed over, the second was fetched and is done with,
\* while a file of the first entry is in place.
C14_Witness ==
    /\ pc = "entry_done"
    /\ pos = 2
    /\ pdf_links = <<2>>
    /\ attempts = <<2>>
    /\ Cardinality(files) = 2

\* C15: a failure of the removal of an invalid file, under AutoRemove or
\* after a yes answer, is not caught: the run aborts there with that
\* error, the file system is left as it was, and nothing more is done: no
\* later link or entry is fetched, no file removed or written.
C15_RemovalFailureIsFatal ==
    [][/\ (task'.remove_called /\ ~task.remove_called) =>
             /\ pc \in {"validate", "prompt"}
             /\ args.remove_non_pdf
                  \/ (~args.keep_non_pdf /\ ClaimYes(task'.choice))
             /\ \/ /\ files' = files \ {task.path}
                   /\ task.path \in files
                   /\ pc' = "link_done"
                   /\ abort' = "none"
                \/ /\ files' = files
                   /\ pc' = "aborted"
                   /\ abort' = "OSError"
       /\ abort' = "OSError" =>
             (pc \in {"validate", "prompt"} /\ task'.remove_called)
       /\ pc # "aborted"
      ]_vars

\* The removal failed for the first link of the second entry, while a file
\* of the first entry is in place.
C15_Witness ==
    /\ pc = "aborted"
    /\ abort = "OSError"
    /\ pos = 2
    /\ task.k = 1
    /\ task.remove_called
    /\ Cardinality(files) = 2

\* C16: the operator is prompted, and an answer is taken, only when the
\* policy is Prompt and the file just fetched does not begin with %PDF:
\* never under AutoRemove, never under AutoKeep, and never for a valid PDF.
C16_PromptOnlyForInvalidUnderPrompt ==
    (pc = "prompt" \/ prompts > 0 \/ task.prompts > 0 \/ task.choice # None)
        => /\ ~args.remove_non_pdf
           /\ ~args.keep_non_pdf
           /\ task.fetch = "ok"
           /\ task.content = "other"

\* Under the Prompt policy validate_pdf returned for a valid PDF and
\* nothing was asked.
C16_Witness ==
    /\ pc = "link_done"
    /\ ~args.remove_non_pdf /\ ~args.keep_non_pdf
    /\ task.fetch = "ok"
    /\ task.content = "pdf"
    /\ task.returned
    /\ task.prompts = 0 /\ prompts = 0
    /\ task.choice = None

\* The run is over: the script ended or an exception ended it.
Terminated == pc \in {"done", "aborted"}

\* C17: for a finite feed, with every network call returning, the run
\* terminates unless it stays at the prompt for ever with no valid answer
\* given: the prompt loop is the only place where it can go on for ever.
\* Once over, the run stays over.
C17_TerminatesUnlessPromptedForever ==
    /\ <>Terminated \/ <>[](pc = "prompt" /\ ~ClaimValid(task.choice))
    /\ [][Terminated => Terminated']_vars

\* The script has ended after two entries, both printed, with two files
\* in place under the Prompt policy.
C17_Witness ==
    /\ pc = "done"
    /\ ~args.remove_non_pdf /\ ~args.keep_non_pdf
    /\ n_entries = 2
    /\ entry_index = 2
    /\ Cardinality(files) = 2

\* C18: the identifier, title, publish year and update year with which an
\* entry was filtered, printed and named are those of that same entry,
\* also when the entry lacks one of them: no value of an earlier entry is
\* used for it.
C18_FieldsOfTheSameEntry ==
    pc = "select" =>
        /\ entry.id # None /\ id_ = LastSegment(entry.id)
        /\ entry.title # None /\ title = entry.title
        /\ entry.published # None /\ publish_year = entry.published
        /\ entry.updated # None /\ update_year = entry.updated

\* C19: no two download tasks of one run target the same path: a fetch is
\* never directed at a path where a file fetched and kept earlier in the
\* run is in place.
C19_NoTwoTasksSamePath ==
    [][(pc = "links" /\ task'.fetch # "none") => task'.path \notin files]_vars

====
